---- MODULE Spec2Model ----
(***************************************************************************)
(* The browser client of the image-stamp service (static/app.js) as a      *)
(* state machine.  One step of the model is one run-to-completion task of  *)
(* the page's event loop: a click/change/drop handler up to its first      *)
(* await, the resumption of a handler when its request settles, or the     *)
(* firing of one timer.  The HTTP server is an external collaborator; its  *)
(* answers are modelled from the interface table of the specification.     *)
(*                                                                         *)
(* Text is written in ASCII: "Processing..." stands for the source's       *)
(* 'Processing' followed by U+2026, and "  *  " for the bullet separator.  *)
(***************************************************************************)
EXTENDS Integers, Sequences, FiniteSets, TLC

VARIABLES
  toastEl,        \* #toast: [text, hidden, ok]  (ok stands for the border colour)
  toastTimers,    \* pending 3000 ms timers of toast(), oldest first
  creditsEl,      \* #credits textContent, a sequence of characters
  priceEl,        \* #price textContent, a sequence of characters
  progressBox,    \* #progress: [hidden]
  progressMsg,    \* #progressMsg textContent
  progressTimers, \* pending 500 ms timers of the stamp handler
  files,          \* fileInput.files, a sequence of [name, size]
  fileList,       \* #fileList textContent, a sequence of text pieces
  form,           \* values of #date, #start, #end, #crop (character sequences)
  inflight,       \* requests issued by fetch and not yet settled, in issue order
  session,        \* server: the credential cookie names a logged-in session
  credits,        \* server: that account's credit balance
  blobUrls,       \* object URLs created and not yet revoked
  anchors,        \* synthetic <a> elements attached to document.body
  step            \* the handler task run by the step just taken: [op, by, fx, body]

dom    == <<toastEl, toastTimers, creditsEl, priceEl, progressBox, progressMsg, progressTimers>>
intake == <<files, fileList>>
server == <<session, credits>>
leaks  == <<blobUrls, anchors>>
vars   == <<toastEl, toastTimers, creditsEl, priceEl, progressBox, progressMsg,
            progressTimers, files, fileList, form, inflight, session, credits,
            blobUrls, anchors, step>>

---------------------------------------------------------------------------
\* Bounds of the model.
\* A cap bounds three things alike: the requests in flight, the pending toast timers
\* and the pending progress timers.
MaxInFlight == 1   \* the cap when the whole client runs
MaxOverlap  == 2   \* the cap when one component runs alone
MaxCredits  == 1   \* server balance
MaxFiles    == 2   \* files in one selection
MaxLen      == 3   \* characters typed in a form field

---------------------------------------------------------------------------
\* Characters and text.
Whitespace == {" "}
Alphabet   == {" ", "x"}

RECURSIVE SeqsUpTo(_, _)
SeqsUpTo(S, n) ==
  IF n = 0 THEN {<<>>}
  ELSE LET shorter == SeqsUpTo(S, n - 1)
       IN  shorter \cup {Append(s, c) : s \in {t \in shorter : Len(t) = n - 1}, c \in S}

Digits == <<"0", "1", "2", "3", "4", "5", "6", "7", "8", "9">>

\* String(n) for a non-negative integer: what assigning a number to textContent writes.
RECURSIVE Decimal(_)
Decimal(n) ==
  IF n < 10 THEN <<Digits[n + 1]>>
  ELSE Decimal(n \div 10) \o <<Digits[(n % 10) + 1]>>

\* String.prototype.trim
RECURSIVE TrimStart(_)
TrimStart(s) ==
  IF s # <<>> /\ Head(s) \in Whitespace THEN TrimStart(Tail(s)) ELSE s

RECURSIVE TrimEnd(_)
TrimEnd(s) ==
  IF s # <<>> /\ s[Len(s)] \in Whitespace THEN TrimEnd(SubSeq(s, 1, Len(s) - 1)) ELSE s

trim(s) == TrimEnd(TrimStart(s))

Remove(s, i) == SubSeq(s, 1, i - 1) \o SubSeq(s, i + 1, Len(s))

---------------------------------------------------------------------------
\* Files the user can pick or drop.
FilePool == {[name |-> "a.png", size |-> 2048], [name |-> "b.jpg", size |-> 1536]}
NoFile   == [name |-> "", size |-> 0]
Selections(n) == SeqsUpTo(FilePool, n)

\* Files of sizes on both sides of the rounding boundaries of a kilobyte count.
RenderPool ==
  {[name |-> "a.png", size |-> 2048], [name |-> "b.jpg", size |-> 1536],
   [name |-> "c.png", size |-> 1535], [name |-> "d.png", size |-> 512],
   [name |-> "e.png", size |-> 511],  [name |-> "f.zip", size |-> 10752],
   [name |-> "g.png", size |-> 0]}
RenderSelections(n) == SeqsUpTo(RenderPool, n)

FormFields == {"date", "start", "end", "crop"}
FormValues == SeqsUpTo(Alphabet, MaxLen)

\* setDefaults: today's date (a sample day) and the fixed five-minute window; #crop
\* is left as the page has it.
setDefaults ==
  [date  |-> <<"0", "1", "/", "0", "1", "/", "2", "0", "2", "4">>,
   start |-> <<"0", "9", ":", "0", "0", ":", "0", "0">>,
   end   |-> <<"0", "9", ":", "0", "5", ":", "0", "0">>,
   crop  |-> <<>>]

---------------------------------------------------------------------------
\* The server (external): its responses, and the session and balance they leave.
CreditCostGbp == 10

NoData == [hasCredits |-> FALSE, credits |-> 0, hasCost |-> FALSE, cost |-> 0]

\* A 2xx response; json: it declares content-type application/json; valid: its body
\* parses as JSON.
Ok(json, valid, data) ==
  [ok |-> TRUE, json |-> json, valid |-> valid, text |-> "", statusText |-> "OK",
   data |-> data]

\* A non-2xx response with its body text and status phrase.
Err(text, phrase) ==
  [ok |-> FALSE, json |-> FALSE, valid |-> FALSE, text |-> text, statusText |-> phrase,
   data |-> NoData]

NoResp == Err("", "")
NoSeen == [session |-> FALSE, credits |-> 0]

StatusData(withCost) ==
  [hasCredits |-> TRUE, credits |-> credits, hasCost |-> withCost,
   cost |-> IF withCost THEN CreditCostGbp ELSE 0]

Outcome(resp, s, c) == [resp |-> resp, session |-> s, credits |-> c]

\* What the server may answer to a request of this kind in its present state.  The
\* stamp endpoint answers a job with the zip; anyType: it may declare any content
\* type for it, application/json included, whether or not the body parses as JSON.
ServerOutcomes(kind, anyType) ==
  CASE kind = "status" ->
         IF session
         THEN {Outcome(Ok(TRUE, TRUE, StatusData(w)), session, credits) : w \in BOOLEAN}
         ELSE {Outcome(Err("Not authenticated", "Unauthorized"), session, credits),
               Outcome(Ok(TRUE, TRUE, NoData), session, credits)}
    [] kind = "login" ->
         {Outcome(Ok(TRUE, TRUE, NoData), TRUE, credits),
          Outcome(Err("Invalid credentials", "Unauthorized"), session, credits),
          Outcome(Err("", "Unauthorized"), session, credits)}
    [] kind = "signup" ->
         {Outcome(Ok(TRUE, TRUE, NoData), session, credits),
          Outcome(Err("Email already registered", "Bad Request"), session, credits),
          Outcome(Err("", "Bad Request"), session, credits)}
    [] kind = "logout" ->
         {Outcome(Ok(TRUE, TRUE, NoData), FALSE, credits),
          Outcome(Err("Not authenticated", "Unauthorized"), session, credits),
          Outcome(Err("", "Unauthorized"), session, credits)}
    [] kind = "topup" ->
         {Outcome(Err("Not Found", "Not Found"), session, credits),
          Outcome(Err("", "Not Found"), session, credits)}
         \cup (IF session
               THEN {Outcome(Ok(TRUE, TRUE, NoData), session, c) : c \in (credits + 1)..MaxCredits}
               ELSE {})
    [] kind = "stamp" ->
         IF ~session THEN {Outcome(Err("", "Unauthorized"), session, credits)}
         ELSE IF credits = 0
         THEN {Outcome(Err("Insufficient credits", "Payment Required"), session, credits),
               Outcome(Err("", "Payment Required"), session, credits)}
         ELSE {Outcome(Ok(FALSE, FALSE, NoData), session, credits - 1)}
              \cup (IF anyType
                    THEN {Outcome(Ok(TRUE, v, NoData), session, credits - 1) : v \in BOOLEAN}
                    ELSE {})

\* A request as fetch issues it.  by: the operation whose refreshStatus() issued a
\* status request.  seen: the session and balance a status request was answered from.
Request(kind, by) ==
  [kind |-> kind, by |-> by, stage |-> "sent", resp |-> NoResp, seen |-> NoSeen]

Idle == [op |-> "", by |-> "", fx |-> <<>>, body |-> <<>>]
Step(op, fx) == [op |-> op, by |-> "", fx |-> fx, body |-> <<>>]

\* The server handles the i-th request in flight.
ServerHandle(i, anyType) ==
  /\ inflight[i].stage = "sent"
  /\ \E o \in ServerOutcomes(inflight[i].kind, anyType) :
       /\ inflight' = [inflight EXCEPT ![i] =
                         [@ EXCEPT !.stage = "responded", !.resp = o.resp,
                                   !.seen = IF inflight[i].kind = "status" /\ o.session
                                            THEN [session |-> TRUE, credits |-> o.credits]
                                            ELSE @]]
       /\ session' = o.session
       /\ credits' = o.credits
  /\ step' = Idle
  /\ UNCHANGED <<dom, intake, form, leaks>>

\* How a request in flight can settle for the client: the whole response the server
\* gave arrives, or the request fails on the network (fetch rejects).
Deliveries(r) ==
  {[failed |-> TRUE, resp |-> NoResp]}
    \cup (IF r.stage = "responded" THEN {[failed |-> FALSE, resp |-> r.resp]} ELSE {})

---------------------------------------------------------------------------
\* The client.

NetworkError   == "Failed to fetch"
JsonParseError == "Unexpected token in JSON"
BlobTypeError  == "res.blob is not a function"
EmptySelection == "Please add images or a .zip"

Placeholder  == <<"?">>
DefaultPrice == <<"2", "0">>

\* toast(msg, ok): show the message, schedule a hide 3000 ms later.
toast(msg, ok) ==
  /\ toastEl' = [text |-> msg, hidden |-> FALSE, ok |-> ok]
  /\ toastTimers' = toastTimers + 1

\* The oldest pending toast timer fires: ()=>t.classList.add('hidden')
toastTimeout_hidesProgress ==
  /\ toastTimers > 0
  /\ toastTimers' = toastTimers - 1
  /\ toastEl' = [toastEl EXCEPT !.hidden = TRUE]
  /\ progressBox' = [hidden |-> TRUE]
  /\ step' = Idle
  /\ UNCHANGED <<creditsEl, priceEl, progressMsg, progressTimers,
                 intake, form, inflight, server, leaks>>
toastTimeout ==
  /\ toastTimers > 0
  /\ toastTimers' = toastTimers - 1
  /\ toastEl' = [toastEl EXCEPT !.hidden = TRUE]
  /\ step' = Idle
  /\ UNCHANGED <<creditsEl, priceEl, progressBox, progressMsg, progressTimers,
                 intake, form, inflight, server, leaks>>

\* api(url, opts), from the settling of its fetch on: what the caller's await yields.
\* raw: the Response itself is returned; otherwise data is the parsed JSON.
Thrown(msg) == [thrown |-> TRUE, message |-> msg, raw |-> FALSE, data |-> NoData]
Returned(raw, data) == [thrown |-> FALSE, message |-> "", raw |-> raw, data |-> data]

api_noStatusPhrase(d) ==
  IF d.failed THEN Thrown(NetworkError)
  ELSE IF ~d.resp.ok
       THEN Thrown(d.resp.text)
       ELSE IF d.resp.json
            THEN (IF d.resp.valid THEN Returned(FALSE, d.resp.data) ELSE Thrown(JsonParseError))
            ELSE Returned(TRUE, NoData)
api(d) ==
  IF d.failed THEN Thrown(NetworkError)
  ELSE IF ~d.resp.ok
       THEN Thrown(IF d.resp.text # "" THEN d.resp.text ELSE d.resp.statusText)
       ELSE IF d.resp.json
            THEN (IF d.resp.valid THEN Returned(FALSE, d.resp.data) ELSE Thrown(JsonParseError))
            ELSE Returned(TRUE, NoData)

\* refreshStatus() after its await: the two assignments, or the catch.
refreshStatus_falsyCredits(o) ==
  /\ IF o.thrown
     THEN /\ creditsEl' = Placeholder
          /\ priceEl' = priceEl
     ELSE /\ creditsEl' = IF o.data.hasCredits /\ o.data.credits # 0
                          THEN Decimal(o.data.credits) ELSE Placeholder
          /\ priceEl' = IF o.data.hasCost THEN Decimal(o.data.cost) ELSE DefaultPrice
  /\ UNCHANGED <<toastEl, toastTimers>>
refreshStatus_toastsFailure(o) ==
  /\ IF o.thrown
     THEN /\ creditsEl' = Placeholder
          /\ priceEl' = priceEl
          /\ toast(o.message, FALSE)
     ELSE /\ creditsEl' = IF o.data.hasCredits THEN Decimal(o.data.credits) ELSE Placeholder
          /\ priceEl' = IF o.data.hasCost THEN Decimal(o.data.cost) ELSE DefaultPrice
          /\ UNCHANGED <<toastEl, toastTimers>>
refreshStatus_writes(o) ==
  /\ IF o.thrown
     THEN /\ creditsEl' = Placeholder
          /\ priceEl' = priceEl
     ELSE /\ creditsEl' = IF o.data.hasCredits THEN Decimal(o.data.credits) ELSE Placeholder
          /\ priceEl' = IF o.data.hasCost THEN Decimal(o.data.cost) ELSE DefaultPrice
  /\ UNCHANGED <<toastEl, toastTimers>>

refreshStatus_resume(i, d) ==
  /\ inflight[i].kind = "status"
  /\ refreshStatus_writes(api(d))
  /\ inflight' = Remove(inflight, i)
  /\ step' = [op |-> IF api(d).thrown THEN "refreshStatus.catch" ELSE "refreshStatus.then",
              by |-> inflight[i].by, fx |-> <<>>, body |-> <<>>]
  /\ UNCHANGED <<progressBox, progressMsg, progressTimers, intake, form, server, leaks>>

---------------------------------------------------------------------------
\* Auth handlers.  X_onclick is the handler up to its await (fetch has been called);
\* X_resume is the rest of the handler, run when the request settles.  cap bounds the
\* requests in flight.

Click(kind, op, fx, cap) ==
  /\ Len(inflight) < cap
  /\ inflight' = Append(inflight, Request(kind, ""))
  /\ step' = Step(op, fx)
  /\ UNCHANGED <<dom, intake, form, server, leaks>>

loginBtn_onclick(cap)  == Click("login", "login.click", <<"fetch /auth/login">>, cap)
signupBtn_onclick(cap) == Click("signup", "signup.click", <<"fetch /auth/signup">>, cap)
logoutBtn_onclick(cap) == Click("logout", "logout.click", <<"fetch /auth/logout">>, cap)
topupBtn_onclick(cap)  == Click("topup", "topup.click", <<"fetch /auth/topup_demo">>, cap)

\* try { await api(..); toast(done); refreshStatus(); } catch(e) { toast(e.message,false); }
ThenRefresh(i, o, by, done, cap) ==
  /\ toastTimers < cap
  /\ IF ~o.thrown
     THEN /\ toast(done, TRUE)
          /\ inflight' = Append(Remove(inflight, i), Request("status", by))
          /\ step' = Step(by, <<"toast", "fetch /auth/status">>)
     ELSE /\ toast(o.message, FALSE)
          /\ inflight' = Remove(inflight, i)
          /\ step' = Step("catch", <<"toast">>)
  /\ UNCHANGED <<creditsEl, priceEl, progressBox, progressMsg, progressTimers,
                 intake, form, server, leaks>>

loginBtn_resume_genericError(i, d, cap) ==
  /\ inflight[i].kind = "login"
  /\ ThenRefresh(i, [api(d) EXCEPT !.message = "Login failed"], "login", "Logged in", cap)
loginBtn_resume(i, d, cap) ==
  /\ inflight[i].kind = "login"
  /\ ThenRefresh(i, api(d), "login", "Logged in", cap)

logoutBtn_resume_noRefresh(i, d, cap) ==
  /\ inflight[i].kind = "logout"
  /\ toastTimers < cap
  /\ IF ~api(d).thrown THEN toast("Logged out", TRUE) ELSE toast(api(d).message, FALSE)
  /\ inflight' = Remove(inflight, i)
  /\ step' = Step(IF api(d).thrown THEN "catch" ELSE "logout", <<"toast">>)
  /\ UNCHANGED <<creditsEl, priceEl, progressBox, progressMsg, progressTimers,
                 intake, form, server, leaks>>
logoutBtn_resume(i, d, cap) ==
  /\ inflight[i].kind = "logout"
  /\ ThenRefresh(i, api(d), "logout", "Logged out", cap)

signupBtn_resume_refreshes(i, d, cap) ==
  /\ inflight[i].kind = "signup"
  /\ ThenRefresh(i, api(d), "signup", "Account created. You can login now.", cap)
signupBtn_resume(i, d, cap) ==
  /\ inflight[i].kind = "signup"
  /\ toastTimers < cap
  /\ IF ~api(d).thrown
     THEN toast("Account created. You can login now.", TRUE)
     ELSE toast(api(d).message, FALSE)
  /\ step' = Step(IF api(d).thrown THEN "catch" ELSE "signup", <<"toast">>)
  /\ inflight' = Remove(inflight, i)
  /\ UNCHANGED <<creditsEl, priceEl, progressBox, progressMsg, progressTimers,
                 intake, form, server, leaks>>

topupBtn_resume_showsError(i, d, cap) ==
  /\ inflight[i].kind = "topup"
  /\ ThenRefresh(i, api(d), "topup", "Added 5 demo credits", cap)
topupBtn_resume(i, d, cap) ==
  /\ inflight[i].kind = "topup"
  /\ toastTimers < cap
  /\ IF ~api(d).thrown
     THEN /\ toast("Added 5 demo credits", TRUE)
          /\ inflight' = Append(Remove(inflight, i), Request("status", "topup"))
          /\ step' = Step("topup", <<"toast", "fetch /auth/status">>)
     ELSE /\ toast("Demo top-up not enabled", FALSE)
          /\ inflight' = Remove(inflight, i)
          /\ step' = Step("catch", <<"toast">>)
  /\ UNCHANGED <<creditsEl, priceEl, progressBox, progressMsg, progressTimers,
                 intake, form, server, leaks>>

---------------------------------------------------------------------------
\* File intake.

Round(num, den) == (2 * num + den) \div (2 * den)   \* Math.round(num/den), num >= 0

Entry(f) == <<f.name, " (">> \o Decimal(Round(f.size, 1024)) \o <<" KB)">>

RECURSIVE Join(_, _)
Join(parts, sep) ==
  IF Len(parts) = 0 THEN <<>>
  ELSE IF Len(parts) = 1 THEN parts[1]
  ELSE parts[1] \o <<sep>> \o Join(Tail(parts), sep)

\* renderFiles(list): the text it leaves in #fileList
renderFiles_floorKB(list) ==
  IF Len(list) = 0 THEN <<>>
  ELSE Join([k \in 1..Len(list) |->
               <<list[k].name, " (">> \o Decimal(list[k].size \div 1024) \o <<" KB)">>],
            "  *  ")
renderFiles(list) ==
  IF Len(list) = 0 THEN <<>>
  ELSE Join([k \in 1..Len(list) |-> Entry(list[k])], "  *  ")

\* The user picks `list` in the file dialog; the change handler renders it.
fileInput_onchange_appends(list) ==
  /\ files' = files \o list
  /\ fileList' = renderFiles(files \o list)
  /\ step' = Step("fileInput.change", <<"renderFiles">>)
  /\ UNCHANGED <<dom, form, inflight, server, leaks>>
fileInput_onchange(list) ==
  /\ files' = list
  /\ fileList' = renderFiles(list)
  /\ step' = Step("fileInput.change", <<"renderFiles">>)
  /\ UNCHANGED <<dom, form, inflight, server, leaks>>

\* A drop on the dropzone; hasDt: the event carries a dataTransfer, with files `list`.
dropzone_drop_noAssign(hasDt, list) ==
  /\ files' = files
  /\ fileList' = IF hasDt THEN renderFiles(list) ELSE fileList
  /\ step' = Step("dropzone.drop",
                  IF hasDt THEN <<"prevent", "renderFiles">> ELSE <<"prevent">>)
  /\ UNCHANGED <<dom, form, inflight, server, leaks>>
dropzone_drop(hasDt, list) ==
  /\ IF ~hasDt
     THEN UNCHANGED intake
     ELSE /\ files' = list
          /\ fileList' = renderFiles(list)
  /\ step' = Step("dropzone.drop",
                  IF hasDt THEN <<"prevent", "renderFiles">> ELSE <<"prevent">>)
  /\ UNCHANGED <<dom, form, inflight, server, leaks>>

---------------------------------------------------------------------------
\* Stamp and download.

FileEntry(f) ==
  [name |-> "files", isFile |-> TRUE, file |-> f, filename |-> f.name, value |-> <<>>]
Field(name, v) ==
  [name |-> name, isFile |-> FALSE, file |-> NoFile, filename |-> "", value |-> v]

\* The FormData the handler builds: one fd.append per file, then the four fields.
StampFormData_untrimmedCrop(list, f) ==
  [k \in 1..Len(list) |-> FileEntry(list[k])]
    \o <<Field("date", trim(f.date)), Field("start_time", trim(f.start)),
         Field("end_time", trim(f.end)), Field("crop_height", f.crop)>>
StampFormData(list, f) ==
  [k \in 1..Len(list) |-> FileEntry(list[k])]
    \o <<Field("date", trim(f.date)), Field("start_time", trim(f.start)),
         Field("end_time", trim(f.end)), Field("crop_height", trim(f.crop))>>

\* The catch block of the stamp handler.
stampBtn_catch_keepsProgress(msg, cap) ==
  /\ toastTimers < cap
  /\ toast(msg, FALSE)
  /\ UNCHANGED <<creditsEl, priceEl, progressBox, progressMsg, progressTimers>>
stampBtn_catch(msg, cap) ==
  /\ toastTimers < cap
  /\ progressBox' = [hidden |-> TRUE]
  /\ toast(msg, FALSE)
  /\ UNCHANGED <<creditsEl, priceEl, progressMsg, progressTimers>>

stampBtn_onclick_noValidation(cap) ==
  /\ Len(inflight) < cap
  /\ progressBox' = [hidden |-> FALSE]
  /\ progressMsg' = "Processing..."
  /\ inflight' = Append(inflight, Request("stamp", ""))
  /\ step' = [op |-> "stamp.click", by |-> "",
              fx |-> <<"FormData", "progress.show", "progressMsg Processing...",
                       "fetch /api/stamp">>,
              body |-> StampFormData(files, form)]
  /\ UNCHANGED <<toastEl, toastTimers, creditsEl, priceEl, progressTimers,
                 intake, form, server, leaks>>
stampBtn_onclick_exclusive(cap) ==
  IF \E k \in 1..Len(inflight) : inflight[k].kind = "stamp"
  THEN /\ step' = Step("stamp.busy", <<>>)
       /\ UNCHANGED <<dom, intake, form, inflight, server, leaks>>
  ELSE stampBtn_onclick_noValidation(cap)
stampBtn_onclick(cap) ==
  IF Len(files) = 0
  THEN /\ stampBtn_catch(EmptySelection, cap)
       /\ step' = Step("stamp.invalid", <<"throw", "progress.hide", "toast">>)
       /\ UNCHANGED <<intake, form, inflight, server, leaks>>
  ELSE /\ Len(inflight) < cap
       /\ progressBox' = [hidden |-> FALSE]
       /\ progressMsg' = "Processing..."
       /\ inflight' = Append(inflight, Request("stamp", ""))
       /\ step' = [op |-> "stamp.click", by |-> "",
                   fx |-> <<"FormData", "progress.show", "progressMsg Processing...",
                            "fetch /api/stamp">>,
                   body |-> StampFormData(files, form)]
       /\ UNCHANGED <<toastEl, toastTimers, creditsEl, priceEl, progressTimers,
                      intake, form, server, leaks>>

\* What the success path of the handler does after `await api('/api/stamp')`.
StampThenFx ==
  <<"blob", "createObjectURL", "appendChild", "click stamped_images.zip", "remove",
    "revokeObjectURL", "progressMsg Done", "setTimeout 500", "fetch /auth/status">>

\* The handler from `await api('/api/stamp')` on: res.blob(), the download, 'Done',
\* the 500 ms timer and refreshStatus(); or the catch block.
stampBtn_resume_hidesAtOnce(i, d, cap) ==
  /\ inflight[i].kind = "stamp"
  /\ LET o == api(d) IN
     IF o.thrown \/ ~o.raw
     THEN /\ stampBtn_catch(IF o.thrown THEN o.message ELSE BlobTypeError, cap)
          /\ inflight' = Remove(inflight, i)
          /\ step' = Step("catch", <<"progress.hide", "toast">>)
          /\ UNCHANGED leaks
     ELSE /\ UNCHANGED leaks
          /\ progressMsg' = "Done"
          /\ progressBox' = [hidden |-> TRUE]
          /\ inflight' = Append(Remove(inflight, i), Request("status", "stamp"))
          /\ step' = Step("stamp", StampThenFx)
          /\ UNCHANGED <<toastEl, toastTimers, creditsEl, priceEl, progressTimers>>
  /\ UNCHANGED <<intake, form, server>>
stampBtn_resume_leaksUrl(i, d, cap) ==
  /\ inflight[i].kind = "stamp"
  /\ LET o == api(d) IN
     IF o.thrown \/ ~o.raw
     THEN /\ stampBtn_catch(IF o.thrown THEN o.message ELSE BlobTypeError, cap)
          /\ inflight' = Remove(inflight, i)
          /\ step' = Step("catch", <<"progress.hide", "toast">>)
          /\ UNCHANGED leaks
     ELSE /\ progressTimers < cap
          /\ blobUrls' = blobUrls + 1
          /\ anchors' = (anchors + 1) - 1
          /\ progressMsg' = "Done"
          /\ progressTimers' = progressTimers + 1
          /\ inflight' = Append(Remove(inflight, i), Request("status", "stamp"))
          /\ step' = Step("stamp", StampThenFx)
          /\ UNCHANGED <<toastEl, toastTimers, creditsEl, priceEl, progressBox>>
  /\ UNCHANGED <<intake, form, server>>
stampBtn_resume(i, d, cap) ==
  /\ inflight[i].kind = "stamp"
  /\ LET o == api(d) IN
     IF o.thrown \/ ~o.raw
     THEN /\ stampBtn_catch(IF o.thrown THEN o.message ELSE BlobTypeError, cap)
          /\ inflight' = Remove(inflight, i)
          /\ step' = Step("catch", <<"progress.hide", "toast">>)
          /\ UNCHANGED leaks
     ELSE /\ progressTimers < cap
          /\ blobUrls' = (blobUrls + 1) - 1
          /\ anchors' = (anchors + 1) - 1
          /\ progressMsg' = "Done"
          /\ progressTimers' = progressTimers + 1
          /\ inflight' = Append(Remove(inflight, i), Request("status", "stamp"))
          /\ step' = Step("stamp", StampThenFx)
          /\ UNCHANGED <<toastEl, toastTimers, creditsEl, priceEl, progressBox>>
  /\ UNCHANGED <<intake, form, server>>

\* The oldest pending 500 ms timer fires: ()=>progressBox.classList.add('hidden')
progressTimeout ==
  /\ progressTimers > 0
  /\ progressTimers' = progressTimers - 1
  /\ progressBox' = [hidden |-> TRUE]
  /\ step' = Idle
  /\ UNCHANGED <<toastEl, toastTimers, creditsEl, priceEl, progressMsg,
                 intake, form, inflight, server, leaks>>

---------------------------------------------------------------------------
\* The page once the script has run: the elements as the markup has them (toast and
\* progress hidden, texts empty), the defaults set, the first refreshStatus() issued.
\* The browser may hold the cookie of an earlier login.
Init ==
  /\ toastEl = [text |-> "", hidden |-> TRUE, ok |-> TRUE]
  /\ toastTimers = 0
  /\ creditsEl = <<>>
  /\ priceEl = <<>>
  /\ progressBox = [hidden |-> TRUE]
  /\ progressMsg = ""
  /\ progressTimers = 0
  /\ files = <<>>
  /\ fileList = <<>>
  /\ form = setDefaults
  /\ inflight = <<Request("status", "startup")>>
  /\ session \in BOOLEAN
  /\ credits \in 0..MaxCredits
  /\ blobUrls = 0
  /\ anchors = 0
  /\ step = Step("startup", <<"setDefaults", "fetch /auth/status">>)

\* The whole client, one request at a time.
Next ==
  \/ loginBtn_onclick(MaxInFlight)
  \/ signupBtn_onclick(MaxInFlight)
  \/ logoutBtn_onclick(MaxInFlight)
  \/ topupBtn_onclick(MaxInFlight)
  \/ \E list \in Selections(1) : fileInput_onchange(list)
  \/ \E list \in Selections(1) : dropzone_drop(TRUE, list)
  \/ dropzone_drop(FALSE, <<>>)
  \/ stampBtn_onclick(MaxInFlight)
  \/ \E i \in 1..Len(inflight) : ServerHandle(i, FALSE)
  \/ \E i \in 1..Len(inflight) : \E d \in Deliveries(inflight[i]) : refreshStatus_resume(i, d)
  \/ \E i \in 1..Len(inflight) : \E d \in Deliveries(inflight[i]) : loginBtn_resume(i, d, MaxInFlight)
  \/ \E i \in 1..Len(inflight) : \E d \in Deliveries(inflight[i]) : signupBtn_resume(i, d, MaxInFlight)
  \/ \E i \in 1..Len(inflight) : \E d \in Deliveries(inflight[i]) : logoutBtn_resume(i, d, MaxInFlight)
  \/ \E i \in 1..Len(inflight) : \E d \in Deliveries(inflight[i]) : topupBtn_resume(i, d, MaxInFlight)
  \/ \E i \in 1..Len(inflight) : \E d \in Deliveries(inflight[i]) : stampBtn_resume(i, d, MaxInFlight)
  \/ toastTimeout
  \/ progressTimeout

Spec == Init /\ [][Next]_vars

\* Stamping alone, with overlapping requests: intake, the stamp handler, the status
\* refresh and the timers.
NextStamp ==
  \/ \E list \in Selections(1) : fileInput_onchange(list)
  \/ stampBtn_onclick(MaxOverlap)
  \/ \E i \in 1..Len(inflight) : ServerHandle(i, FALSE)
  \/ \E i \in 1..Len(inflight) : \E d \in Deliveries(inflight[i]) : refreshStatus_resume(i, d)
  \/ \E i \in 1..Len(inflight) : \E d \in Deliveries(inflight[i]) : stampBtn_resume(i, d, MaxOverlap)
  \/ toastTimeout
  \/ progressTimeout

SpecStamp == Init /\ [][NextStamp]_vars

\* The same, with a server that may declare any content type for the zip.
NextStampAnyType ==
  \/ \E list \in Selections(1) : fileInput_onchange(list)
  \/ stampBtn_onclick(MaxOverlap)
  \/ \E i \in 1..Len(inflight) : ServerHandle(i, TRUE)
  \/ \E i \in 1..Len(inflight) : \E d \in Deliveries(inflight[i]) : refreshStatus_resume(i, d)
  \/ \E i \in 1..Len(inflight) : \E d \in Deliveries(inflight[i]) : stampBtn_resume(i, d, MaxOverlap)
  \/ toastTimeout
  \/ progressTimeout

SpecStampAnyType == Init /\ [][NextStampAnyType]_vars

\* The auth handlers alone, with overlapping requests.
NextAuth ==
  \/ loginBtn_onclick(MaxOverlap)
  \/ signupBtn_onclick(MaxOverlap)
  \/ logoutBtn_onclick(MaxOverlap)
  \/ topupBtn_onclick(MaxOverlap)
  \/ \E i \in 1..Len(inflight) : ServerHandle(i, FALSE)
  \/ \E i \in 1..Len(inflight) : \E d \in Deliveries(inflight[i]) : refreshStatus_resume(i, d)
  \/ \E i \in 1..Len(inflight) : \E d \in Deliveries(inflight[i]) : loginBtn_resume(i, d, MaxOverlap)
  \/ \E i \in 1..Len(inflight) : \E d \in Deliveries(inflight[i]) : signupBtn_resume(i, d, MaxOverlap)
  \/ \E i \in 1..Len(inflight) : \E d \in Deliveries(inflight[i]) : logoutBtn_resume(i, d, MaxOverlap)
  \/ \E i \in 1..Len(inflight) : \E d \in Deliveries(inflight[i]) : topupBtn_resume(i, d, MaxOverlap)
  \/ toastTimeout

SpecAuth == Init /\ [][NextAuth]_vars

\* The stamp click on every selection and every content of the four fields: the user
\* has picked files and typed parameters.
InitForm ==
  /\ toastEl = [text |-> "", hidden |-> TRUE, ok |-> TRUE]
  /\ toastTimers = 0
  /\ creditsEl = <<>>
  /\ priceEl = <<>>
  /\ progressBox = [hidden |-> TRUE]
  /\ progressMsg = ""
  /\ progressTimers = 0
  /\ files \in Selections(MaxFiles)
  /\ fileList = renderFiles(files)
  /\ form \in [FormFields -> FormValues]
  /\ inflight = <<Request("status", "startup")>>
  /\ session = FALSE
  /\ credits = 0
  /\ blobUrls = 0
  /\ anchors = 0
  /\ step = Idle

NextForm == stampBtn_onclick(MaxOverlap)

SpecForm == InitForm /\ [][NextForm]_vars

\* Stamping with overlapping requests while the user also logs in.
NextStampLogin ==
  \/ \E list \in Selections(1) : fileInput_onchange(list)
  \/ stampBtn_onclick(MaxOverlap)
  \/ loginBtn_onclick(MaxOverlap)
  \/ \E i \in 1..Len(inflight) : ServerHandle(i, FALSE)
  \/ \E i \in 1..Len(inflight) : \E d \in Deliveries(inflight[i]) : refreshStatus_resume(i, d)
  \/ \E i \in 1..Len(inflight) : \E d \in Deliveries(inflight[i]) : stampBtn_resume(i, d, MaxOverlap)
  \/ \E i \in 1..Len(inflight) : \E d \in Deliveries(inflight[i]) : loginBtn_resume(i, d, MaxOverlap)
  \/ toastTimeout
  \/ progressTimeout

SpecStampLogin == Init /\ [][NextStampLogin]_vars

\* File intake and the stamp click that reads the selection, with selections of
\* several files.
NextIntake ==
  \/ \E list \in Selections(MaxFiles) : fileInput_onchange(list)
  \/ \E list \in Selections(MaxFiles) : dropzone_drop(TRUE, list)
  \/ dropzone_drop(FALSE, <<>>)
  \/ stampBtn_onclick(MaxOverlap)
  \/ toastTimeout

SpecIntake == Init /\ [][NextIntake]_vars

\* Rendering alone, from any summary already on the page, with file sizes around the
\* rounding boundaries.
InitRender ==
  /\ toastEl = [text |-> "", hidden |-> TRUE, ok |-> TRUE]
  /\ toastTimers = 0
  /\ creditsEl = <<>>
  /\ priceEl = <<>>
  /\ progressBox = [hidden |-> TRUE]
  /\ progressMsg = ""
  /\ progressTimers = 0
  /\ files \in RenderSelections(MaxFiles)
  /\ fileList = renderFiles(files)
  /\ form = setDefaults
  /\ inflight = <<Request("status", "startup")>>
  /\ session = FALSE
  /\ credits = 0
  /\ blobUrls = 0
  /\ anchors = 0
  /\ step = Idle

NextRender ==
  \/ \E list \in RenderSelections(MaxFiles) : fileInput_onchange(list)
  \/ \E list \in RenderSelections(MaxFiles) : dropzone_drop(TRUE, list)
  \/ dropzone_drop(FALSE, <<>>)

SpecRender == InitRender /\ [][NextRender]_vars

---------------------------------------------------------------------------
\* Properties.

Count(seq, x) == Cardinality({k \in 1..Len(seq) : seq[k] = x})
IndexOf(seq, x) ==
  IF \E k \in 1..Len(seq) : seq[k] = x
  THEN CHOOSE k \in 1..Len(seq) : seq[k] = x /\ \A j \in 1..(k - 1) : seq[j] # x
  ELSE 0

IsFetch(e) == e \in {"fetch /auth/status", "fetch /auth/login", "fetch /auth/signup",
                     "fetch /auth/logout", "fetch /auth/topup_demo", "fetch /api/stamp"}
NoFetch(fx) == \A k \in 1..Len(fx) : ~IsFetch(fx[k])

\* t is v without its leading and trailing whitespace, said without computing it.
IsTrimmed(t, v) ==
  \E a, b \in 0..Len(v) :
    /\ a + b <= Len(v)
    /\ t = SubSeq(v, a + 1, Len(v) - b)
    /\ \A k \in 1..a : v[k] \in Whitespace
    /\ \A k \in (Len(v) - b + 1)..Len(v) : v[k] \in Whitespace
    /\ t = <<>> \/ (t[1] \notin Whitespace /\ t[Len(t)] \notin Whitespace)

\* C1: a click on stamp while the file selection is empty shows the failure notice
\* 'Please add images or a .zip' and issues no request: nothing joins the requests in
\* flight and the task calls no fetch, whatever the four fields hold and whatever
\* else is pending.
C1_EmptySelectionFailsLocally ==
  [][(stampBtn_onclick(MaxInFlight) /\ Len(files) = 0) =>
       /\ toastEl' = [text |-> EmptySelection, hidden |-> FALSE, ok |-> FALSE]
       /\ inflight' = inflight
       /\ NoFetch(step'.fx)]_vars

C1_Witness ==
  /\ step.op = "stamp.invalid"
  /\ Len(files) = 0
  /\ toastEl = [text |-> EmptySelection, hidden |-> FALSE, ok |-> FALSE]
  /\ Len(inflight) = 1

\* C2: after a click on stamp with a non-empty selection, the body handed to fetch
\* holds one "files" entry per selected file, in the selection's order, followed by
\* nothing but the fields date, start_time, end_time and crop_height, once each, each
\* holding its form field's value without leading and trailing whitespace.
ScalarOk(body, name, v) ==
  /\ Cardinality({k \in 1..Len(body) : body[k].name = name}) = 1
  /\ \A k \in 1..Len(body) :
       body[k].name = name => (~body[k].isFile /\ IsTrimmed(body[k].value, v))

C2_StampBody ==
  (step.op = "stamp.click") =>
    /\ Len(files) > 0
    /\ Len(step.body) = Len(files) + 4
    /\ \A k \in 1..Len(files) :
         /\ step.body[k].isFile
         /\ step.body[k].name = "files"
         /\ step.body[k].file = files[k]
         /\ step.body[k].filename = files[k].name
    /\ \A k \in (Len(files) + 1)..Len(step.body) : ~step.body[k].isFile
    /\ ScalarOk(step.body, "date", form.date)
    /\ ScalarOk(step.body, "start_time", form.start)
    /\ ScalarOk(step.body, "end_time", form.end)
    /\ ScalarOk(step.body, "crop_height", form.crop)

C2_Witness ==
  /\ step.op = "stamp.click"
  /\ Len(files) = 2
  /\ files[1] # files[2]
  /\ form.date = <<" ", "x", " ">>
  /\ form.start = <<"x", " ", "x">>
  /\ form.end = <<" ", " ">>
  /\ form.crop = <<"x", " ">>
  /\ step.body[6].value = <<"x">>

\* The response arrives whole, and it is a 2xx / a non-2xx one.
Arrives2xx(d) == ~d.failed /\ d.resp.ok
ArrivesNon2xx(d) == ~d.failed /\ ~d.resp.ok

Download == "click stamped_images.zip"

\* C3: whenever the stamp handler resumes on a 2xx response, whatever content type
\* the response declares, that task triggers exactly one download named
\* stamped_images.zip from the body read as a blob.
C3_DownloadWhateverContentType ==
  [][\A i \in 1..Len(inflight) : \A d \in Deliveries(inflight[i]) :
       (stampBtn_resume(i, d, MaxOverlap) /\ Arrives2xx(d)) =>
         /\ Count(step'.fx, Download) = 1
         /\ Count(step'.fx, "blob") = 1]_vars

\* C4: whenever the stamp handler resumes on a non-2xx response, that same step shows
\* the failure notice with the body text, or with the status phrase when the body is
\* empty, and hides the progress indicator; it triggers no download and issues no
\* request, so no status refresh.
C4_StampFailure ==
  [][\A i \in 1..Len(inflight) : \A d \in Deliveries(inflight[i]) :
       (stampBtn_resume(i, d, MaxOverlap) /\ ArrivesNon2xx(d)) =>
         /\ toastEl' = [text |-> IF d.resp.text # "" THEN d.resp.text ELSE d.resp.statusText,
                        hidden |-> FALSE, ok |-> FALSE]
         /\ toastEl'.text # ""
         /\ progressBox'.hidden
         /\ Count(step'.fx, Download) = 0
         /\ NoFetch(step'.fx)
         /\ inflight' = Remove(inflight, i)]_vars

C4_Witness ==
  /\ step.op = "catch"
  /\ toastEl = [text |-> "Insufficient credits", hidden |-> FALSE, ok |-> FALSE]
  /\ progressBox.hidden
  /\ progressMsg = "Processing..."
  /\ \A k \in 1..Len(inflight) : inflight[k].kind # "status"

\* C5: a stamp click with a non-empty selection shows the progress indicator with
\* 'Processing...' before it calls fetch; the task that handles the 2xx response
\* triggers the download and then sets the text to 'Done', leaves the indicator as it
\* is and schedules the 500 ms timer; the indicator is hidden when that timer fires.
C5_ProgressSequence ==
  /\ [][(stampBtn_onclick(MaxOverlap) /\ Len(files) > 0) =>
          /\ ~progressBox'.hidden
          /\ progressMsg' = "Processing..."
          /\ 0 < IndexOf(step'.fx, "progress.show")
          /\ IndexOf(step'.fx, "progress.show") < IndexOf(step'.fx, "fetch /api/stamp")
          /\ IndexOf(step'.fx, "progressMsg Processing...") < IndexOf(step'.fx, "fetch /api/stamp")]_vars
  /\ [][\A i \in 1..Len(inflight) : \A d \in Deliveries(inflight[i]) :
          (stampBtn_resume(i, d, MaxOverlap) /\ Arrives2xx(d)) =>
            /\ progressMsg' = "Done"
            /\ progressBox' = progressBox
            /\ progressTimers' = progressTimers + 1
            /\ 0 < IndexOf(step'.fx, Download)
            /\ IndexOf(step'.fx, Download) < IndexOf(step'.fx, "progressMsg Done")]_vars
  /\ [][progressTimeout => progressBox'.hidden]_vars

\* The three stages seen in one state each would need three witnesses; this is the
\* last: 'Done' shown, the timer just fired, the indicator hidden.
C5_Witness ==
  /\ progressMsg = "Done"
  /\ progressBox.hidden
  /\ progressTimers = 0
  /\ step = Idle
  /\ toastEl.text = ""

\* C6: whenever the top-up handler resumes on a failure, a non-2xx response with any
\* body or a network failure, it shows exactly 'Demo top-up not enabled' as a failure
\* notice and issues no request, so no status refresh.
C6_TopupFailureIsFixedNotice ==
  [][\A i \in 1..Len(inflight) : \A d \in Deliveries(inflight[i]) :
       (topupBtn_resume(i, d, MaxOverlap) /\ (d.failed \/ ~d.resp.ok)) =>
         /\ toastEl' = [text |-> "Demo top-up not enabled", hidden |-> FALSE, ok |-> FALSE]
         /\ NoFetch(step'.fx)
         /\ inflight' = Remove(inflight, i)]_vars

C6_Witness ==
  /\ step.op = "catch"
  /\ toastEl = [text |-> "Demo top-up not enabled", hidden |-> FALSE, ok |-> FALSE]
  /\ \A k \in 1..Len(inflight) : inflight[k].kind # "status"

\* C7: whenever refreshStatus resumes on a failure, a non-2xx response or a network
\* failure, it writes the placeholder '?' to the credits and leaves the notice alone:
\* text, visibility, colour and pending timers unchanged.  The requests in flight hold
\* the refreshes of every origin: startup, login, logout, top-up and stamp.
C7_StatusFailureIsSilent ==
  [][\A i \in 1..Len(inflight) : \A d \in Deliveries(inflight[i]) :
       (refreshStatus_resume(i, d) /\ (d.failed \/ ~d.resp.ok)) =>
         /\ inflight[i].by \in {"startup", "login", "logout", "topup", "stamp"}
         /\ creditsEl' = Placeholder
         /\ toastEl' = toastEl
         /\ toastTimers' = toastTimers]_vars

C7_Witness ==
  /\ step.op = "refreshStatus.catch"
  /\ step.by = "stamp"
  /\ creditsEl = Placeholder
  /\ toastEl = [text |-> "Logged in", hidden |-> FALSE, ok |-> TRUE]

\* The task that settled request i issued one request, a status request, and called
\* fetch once.
OneStatusRequest(i) ==
  /\ Len(inflight') = Len(inflight)
  /\ SubSeq(inflight', 1, Len(inflight') - 1) = Remove(inflight, i)
  /\ inflight'[Len(inflight')].kind = "status"
  /\ inflight'[Len(inflight')].stage = "sent"
  /\ Count(step'.fx, "fetch /auth/status") = 1
  /\ Cardinality({k \in 1..Len(step'.fx) : IsFetch(step'.fx[k])}) = 1

\* C8: the script issues one status request at startup, and the login, logout, top-up
\* and stamp handlers, resumed on a 2xx response, each issue exactly one status
\* request in that task.
C8_StatusAfterEverySuccess ==
  /\ [][(step.op = "startup") =>
          /\ Len(inflight) = 1
          /\ inflight[1].kind = "status"
          /\ Count(step.fx, "fetch /auth/status") = 1]_vars
  /\ [][\A i \in 1..Len(inflight) : \A d \in Deliveries(inflight[i]) :
          (/\ Arrives2xx(d)
           /\ \/ loginBtn_resume(i, d, MaxInFlight)
              \/ logoutBtn_resume(i, d, MaxInFlight)
              \/ topupBtn_resume(i, d, MaxInFlight)
              \/ stampBtn_resume(i, d, MaxInFlight))
          => OneStatusRequest(i)]_vars

C8_Witness ==
  /\ step.op = "logout"
  /\ toastEl.text = "Logged out"
  /\ inflight = <<Request("status", "logout")>>

C10_ToastRestartsVisiblePeriod ==
  /\ [][(toastTimers' = toastTimers + 1) => ~toastEl'.hidden]_vars
  /\ [][(toastTimeout /\ ~toastEl.hidden) => toastTimers = 1]_vars

\* The files of the entries of a request body, in order.
BodyFiles(body) ==
  LET n == Cardinality({k \in 1..Len(body) : body[k].isFile})
  IN  [k \in 1..n |-> body[k].file]

\* C11: after any sequence of picker changes and drops, the summary on the page is
\* the rendering of the input control's file list, and a stamp click that issues a
\* request sends exactly the files of the list last rendered.
C11_SubmissionReadsRenderedSelection ==
  /\ fileList = renderFiles(files)
  /\ (step.op = "stamp.click") =>
       (BodyFiles(step.body) = files /\ renderFiles(BodyFiles(step.body)) = fileList)

C11_Witness ==
  /\ step.op = "stamp.click"
  /\ Len(files) = 2
  /\ files[1].name = "b.jpg"
  /\ files[2].name = "a.png"
  /\ fileList = <<"b.jpg", " (", "2", " KB)", "  *  ", "a.png", " (", "2", " KB)">>

\* The entry 'name (N KB)' of one file, N being the integer nearest to size/1024 (a
\* half goes up), said without computing it.
IsEntry(e, f) ==
  \E N \in 0..(f.size \div 1024 + 1) :
    /\ 2 * 1024 * N - 1024 <= 2 * f.size
    /\ 2 * f.size < 2 * 1024 * N + 1024
    /\ e = <<f.name, " (">> \o Decimal(N) \o <<" KB)">>

\* text is the entries of list, in order, with the separator between them.
RECURSIVE IsSummary(_, _)
IsSummary(text, list) ==
  IF Len(list) = 0 THEN text = <<>>
  ELSE \E n \in 1..Len(text) :
         /\ IsEntry(SubSeq(text, 1, n), list[1])
         /\ IF Len(list) = 1 THEN n = Len(text)
            ELSE /\ n + 1 <= Len(text)
                 /\ text[n + 1] = "  *  "
                 /\ IsSummary(SubSeq(text, n + 2, Len(text)), Tail(list))

\* C12: every rendering, by a picker change or a drop, leaves the summary its argument
\* determines, whatever summary was on the page: each file as 'name (N KB)' with N
\* the size over 1024 rounded to the nearest integer, empty text for the empty list,
\* 'a.png (2 KB)' for a.png of 2048 bytes; rendering the list already rendered leaves
\* the text as it is.
C12_RenderIsFunctionOfList ==
  /\ [][\A list \in RenderSelections(MaxFiles) :
          (fileInput_onchange(list) \/ dropzone_drop(TRUE, list)) =>
            /\ IsSummary(fileList', list)
            /\ (list = <<>>) => (fileList' = <<>>)
            /\ (list = <<[name |-> "a.png", size |-> 2048]>>) =>
                 (fileList' = <<"a.png", " (", "2", " KB)">>)
            /\ (list = files) => (fileList' = fileList)]_vars

C12_Witness ==
  /\ step.op = "fileInput.change"
  /\ Len(files) = 2
  /\ files[1] = [name |-> "c.png", size |-> 1535]
  /\ files[2] = [name |-> "f.zip", size |-> 10752]
  /\ fileList = <<"c.png", " (", "1", " KB)", "  *  ", "f.zip", " (", "1", "1", " KB)">>

ErrorText(resp) == IF resp.text # "" THEN resp.text ELSE resp.statusText
Notice(text, ok) == [text |-> text, hidden |-> FALSE, ok |-> ok]

\* C13: whenever the login, signup or logout handler resumes on a non-2xx response, it
\* shows a failure notice whose text is the response body, or the status phrase when
\* the body is empty; resumed on a 2xx response they show 'Logged in', 'Account
\* created. You can login now.' and 'Logged out' as success notices.
C13_AuthNotices ==
  /\ [][\A i \in 1..Len(inflight) : \A d \in Deliveries(inflight[i]) :
          (/\ ArrivesNon2xx(d)
           /\ \/ loginBtn_resume(i, d, MaxOverlap)
              \/ signupBtn_resume(i, d, MaxOverlap)
              \/ logoutBtn_resume(i, d, MaxOverlap))
          => (toastEl' = Notice(ErrorText(d.resp), FALSE) /\ toastEl'.text # "")]_vars
  /\ [][\A i \in 1..Len(inflight) : \A d \in Deliveries(inflight[i]) :
          Arrives2xx(d) =>
            /\ loginBtn_resume(i, d, MaxOverlap) => (toastEl' = Notice("Logged in", TRUE))
            /\ signupBtn_resume(i, d, MaxOverlap) =>
                 (toastEl' = Notice("Account created. You can login now.", TRUE))
            /\ logoutBtn_resume(i, d, MaxOverlap) => (toastEl' = Notice("Logged out", TRUE))]_vars

C13_Witness ==
  /\ step.op = "catch"
  /\ toastEl = Notice("Invalid credentials", FALSE)
  /\ session
  /\ \A k \in 1..Len(inflight) : inflight[k].kind = "signup"

\* Request i is a stamp request the server has not answered.
Hung(i) == inflight[i].kind = "stamp" /\ inflight[i].stage = "sent"

\* C14 as stated: while a stamp request is in flight and unanswered, the progress
\* indicator is visible.
C14_HungRequestKeepsProgressVisible ==
  \A i \in 1..Len(inflight) : Hung(i) => ~progressBox.hidden

\* C14 amended: a step that hides the indicator while an unanswered stamp request
\* stays in flight is the firing of a 500 ms timer of an earlier successful
\* submission, or the catch block of another stamp click: its local validation
\* failure or its failed request.  No other step hides it: no notice timer, status
\* refresh, login or picker change.
C14_OnlyStampOutcomesHideProgress ==
  [][(/\ \E i \in 1..Len(inflight) :
          Hung(i) /\ \E k \in 1..Len(inflight') : inflight'[k] = inflight[i]
      /\ ~progressBox.hidden
      /\ progressBox'.hidden)
     => \/ progressTimeout
        \/ stampBtn_onclick(MaxOverlap) /\ Len(files) = 0
        \/ \E j \in 1..Len(inflight) : \E d \in Deliveries(inflight[j]) :
             stampBtn_resume(j, d, MaxOverlap) /\ api(d).thrown]_vars

C14_Witness ==
  /\ step.op = "login"
  /\ toastEl = Notice("Logged in", TRUE)
  /\ Len(inflight) = 2
  /\ Hung(1)
  /\ inflight[2].kind = "status"
  /\ ~progressBox.hidden
  /\ progressMsg = "Processing..."

StampInFlight == \E k \in 1..Len(inflight) : inflight[k].kind = "stamp"

\* C15: a stamp click with a non-empty selection made while a stamp request is in
\* flight issues one more /api/stamp request; and every stamp request whose 2xx
\* response is handled, whatever else is in flight, triggers one download and issues
\* one status request in that task.
C15_OverlappingSubmissions ==
  /\ [][(stampBtn_onclick(MaxOverlap) /\ Len(files) > 0 /\ StampInFlight) =>
          /\ inflight' = Append(inflight, Request("stamp", ""))
          /\ Count(step'.fx, "fetch /api/stamp") = 1]_vars
  /\ [][\A i \in 1..Len(inflight) : \A d \in Deliveries(inflight[i]) :
          (stampBtn_resume(i, d, MaxOverlap) /\ Arrives2xx(d)) =>
            /\ Count(step'.fx, Download) = 1
            /\ OneStatusRequest(i)
            /\ inflight'[Len(inflight')].by = "stamp"]_vars

\* Two stamp requests in flight at once, the second just issued.
C15_Witness ==
  /\ step.op = "stamp.click"
  /\ Len(inflight) = 2
  /\ inflight[1].kind = "stamp"
  /\ inflight[2] = Request("stamp", "")

\* C16: in every reachable state with no stamp request in flight and no 500 ms timer
\* pending, the progress indicator is hidden.
C16_ProgressHiddenWhenQuiet ==
  (~StampInFlight /\ progressTimers = 0) => progressBox.hidden

\* Two submissions have been handled, one succeeded and one failed, and the timer
\* has fired.
C16_Witness ==
  /\ ~StampInFlight
  /\ progressTimers = 0
  /\ progressMsg = "Done"
  /\ toastEl.text = "Insufficient credits"
  /\ step = Idle
  /\ progressBox.hidden

\* C18: in every reachable state, that is whenever a task has ended, no object URL
\* is unrevoked and no download anchor is attached; the task of a successful
\* submission creates the URL before the click and revokes it after, attaches the
\* anchor before the click and removes it after.
C18_NoLeakedUrlOrAnchor ==
  /\ blobUrls = 0
  /\ anchors = 0
  /\ (step.op = "stamp") =>
       /\ Count(step.fx, "createObjectURL") = 1
       /\ Count(step.fx, "revokeObjectURL") = 1
       /\ Count(step.fx, "appendChild") = 1
       /\ Count(step.fx, "remove") = 1
       /\ IndexOf(step.fx, "createObjectURL") < IndexOf(step.fx, Download)
       /\ IndexOf(step.fx, "appendChild") < IndexOf(step.fx, Download)
       /\ IndexOf(step.fx, Download) < IndexOf(step.fx, "remove")
       /\ IndexOf(step.fx, Download) < IndexOf(step.fx, "revokeObjectURL")

C18_Witness ==
  /\ step.op = "stamp"
  /\ blobUrls = 0
  /\ anchors = 0
  /\ StampInFlight
  /\ progressTimers = 1

\* C17, for the startup refresh and the refresh issued after login: when the response
\* to the login's refresh has just been shown and the response to the startup
\* refresh, issued earlier, arrives last, it leaves the displayed credits as the
\* later request's response set them.
C17_LateStatusResponseNeverOverwrites ==
  [][\A i \in 1..Len(inflight) : \A d \in Deliveries(inflight[i]) :
       (/\ refreshStatus_resume(i, d)
        /\ ~d.failed
        /\ inflight[i].by = "startup"
        /\ Len(inflight) = 1
        /\ step.op = "refreshStatus.then"
        /\ step.by = "login")
       => creditsEl' = creditsEl]_vars

\* The task that settled request i issued no request and left the displayed credits
\* and price as they were.
NoRequestIssued(i) ==
  /\ inflight' = Remove(inflight, i)
  /\ NoFetch(step'.fx)
  /\ creditsEl' = creditsEl
  /\ priceEl' = priceEl

\* C19: the signup click issues the signup request and nothing else; the signup
\* handler, resumed on success or on failure, issues no request and leaves the
\* displayed credits and price unchanged; the login, logout, top-up and stamp
\* handlers, resumed on a non-2xx response or a network failure, issue no request
\* either.
C19_NoRefreshAfterSignupOrFailure ==
  /\ [][signupBtn_onclick(MaxInFlight) =>
          /\ inflight' = Append(inflight, Request("signup", ""))
          /\ Cardinality({k \in 1..Len(step'.fx) : IsFetch(step'.fx[k])}) = 1
          /\ creditsEl' = creditsEl
          /\ priceEl' = priceEl]_vars
  /\ [][\A i \in 1..Len(inflight) : \A d \in Deliveries(inflight[i]) :
          signupBtn_resume(i, d, MaxInFlight) => NoRequestIssued(i)]_vars
  /\ [][\A i \in 1..Len(inflight) : \A d \in Deliveries(inflight[i]) :
          (/\ d.failed \/ ~d.resp.ok
           /\ \/ loginBtn_resume(i, d, MaxInFlight)
              \/ logoutBtn_resume(i, d, MaxInFlight)
              \/ topupBtn_resume(i, d, MaxInFlight)
              \/ stampBtn_resume(i, d, MaxInFlight))
          => NoRequestIssued(i)]_vars

C19_Witness ==
  /\ step.op = "signup"
  /\ toastEl = Notice("Account created. You can login now.", TRUE)
  /\ inflight = <<>>
  /\ creditsEl = <<"1">>
  /\ priceEl = DefaultPrice

\* C20: a picker change and a drop that carries a data transfer leave the supplied
\* list, and nothing of the previous selection, as the selection and its rendering
\* as the summary, the empty list included; a drop without a data transfer leaves
\* the selection and the summary as they were.
C20_SelectionReplacedWholesale ==
  /\ [][\A list \in Selections(MaxFiles) :
          (fileInput_onchange(list) \/ dropzone_drop(TRUE, list)) =>
            /\ files' = list
            /\ Len(files') = Len(list)
            /\ IsSummary(fileList', list)
            /\ (list = <<>>) => (files' = <<>> /\ fileList' = <<>>)]_vars
  /\ [][dropzone_drop(FALSE, <<>>) => (files' = files /\ fileList' = fileList)]_vars

\* A selection that was submitted has just been replaced by the empty selection, by
\* a drop.
C20_Witness ==
  /\ step.op = "dropzone.drop"
  /\ step.fx = <<"prevent", "renderFiles">>
  /\ files = <<>>
  /\ fileList = <<>>
  /\ ~progressBox.hidden
  /\ progressMsg = "Processing..."

====
